---- MODULE Spec2Model ----
(***************************************************************************)
(* Model of the QVANTO data-catalog service (src/app.py): the asset, tag,  *)
(* lineage and claim tables, the API-key gate in front of every handler,   *)
(* the lineage handlers and the rule-based fraud scorer.                   *)
(*                                                                         *)
(* A table is the set of its rows; the lineage table, whose row order a    *)
(* query result shows, is the sequence of its rows in rowid order.         *)
(* Strings the code                                                        *)
(* transforms (channel, city) are sequences of one-character strings so    *)
(* that lower() and strip() are computed; strings the code only compares   *)
(* or stores are TLA+ strings.  A JSON request body is a function from the *)
(* keys that are present to their values.                                  *)
(***************************************************************************)
EXTENDS Integers, Sequences, FiniteSets, TLC

VARIABLES assets, tags, asset_tags, lineage, claims, resp, txn

vars == <<assets, tags, asset_tags, lineage, claims, resp, txn>>
store == <<assets, tags, asset_tags, lineage, claims>>

(***************************************************************************)
(* Bounds of the exploration.                                              *)
(***************************************************************************)
MaxAssetId == 3
MaxEdges == 3

(***************************************************************************)
(* Small helpers over sequences.                                           *)
(***************************************************************************)
Range(s) == {s[i] : i \in 1..Len(s)}

Max(S) == CHOOSE m \in S : \A x \in S : x <= m

NoDuplicates(s) == \A i, j \in 1..Len(s) : s[i] = s[j] => i = j

\* dict.get(key, default) on a JSON body
Get(data, key, default) == IF key \in DOMAIN data THEN data[key] ELSE default

\* the rowid SQLite gives to a row inserted into an INTEGER PRIMARY KEY
\* table declared without AUTOINCREMENT: one more than the largest in use
NextId(ids) == IF ids = {} THEN 1 ELSE Max(ids) + 1

(***************************************************************************)
(* Strings the code normalises: sequences of one-character strings.        *)
(***************************************************************************)
EmptyStr == << >>
Str_online == <<"o", "n", "l", "i", "n", "e">>
Str_agent == <<"a", "g", "e", "n", "t">>
Str_unknown == <<"u", "n", "k", "n", "o", "w", "n">>
Str_na == <<"n", "a">>
Str_chennai == <<"c", "h", "e", "n", "n", "a", "i">>

\* str.lower() on one character
LowerChar(c) ==
    CASE c = "A" -> "a" [] c = "C" -> "c" [] c = "E" -> "e" [] c = "G" -> "g"
      [] c = "H" -> "h" [] c = "I" -> "i" [] c = "K" -> "k" [] c = "L" -> "l"
      [] c = "N" -> "n" [] c = "O" -> "o" [] c = "T" -> "t" [] c = "U" -> "u"
      [] c = "W" -> "w"
      [] OTHER -> c

\* str.lower()
Lower(s) == [i \in 1..Len(s) |-> LowerChar(s[i])]

IsSpace(c) == c = " "

\* str.strip(): drop the leading and the trailing whitespace
Strip(s) ==
    LET keep == {i \in 1..Len(s) : ~IsSpace(s[i])}
    IN  IF keep = {} THEN EmptyStr
        ELSE LET lo == CHOOSE i \in keep : \A j \in keep : i <= j
                 hi == CHOOSE i \in keep : \A j \in keep : j <= i
             IN  SubSeq(s, lo, hi)

\* (data.get(k) or "").lower().strip()
Normalize(data, key) == Strip(Lower(Get(data, key, EmptyStr)))

\* int(x) for a JSON number x given in tenths: truncation toward zero
IntOfTenths(t) == IF t >= 0 THEN t \div 10 ELSE -((-t) \div 10)

(***************************************************************************)
(* Fraud scoring: RULES, THRESHOLD and the evaluation loop of score_claim. *)
(***************************************************************************)
THRESHOLD == 60

AmountLimit == 300000

PriorClaimsLimit == 3

ScoreCap == 100

UnknownCities == {Str_unknown, Str_na, EmptyStr}

\* variant of RuleAmount with >= for >: C6 must tell them apart
RuleAmountAtLimit(c) == c.amount >= AmountLimit

RuleAmount(c) == c.amount > AmountLimit

RulePriorClaims(c) == c.prior_claims >= PriorClaimsLimit

RuleChannel(c) == c.channel = Str_online

RuleCity(c) == Lower(c.city) \in UnknownCities

\* the predicate of the i-th entry of RULES
RuleHolds(i, c) ==
    CASE i = 1 -> RuleAmount(c)
      [] i = 2 -> RulePriorClaims(c)
      [] i = 3 -> RuleChannel(c)
      [] i = 4 -> RuleCity(c)

\* weight and note of each entry of RULES, in table order
RULES ==
    << [weight |-> 50, note |-> "High claim amount > 300k"],
       [weight |-> 25, note |-> "Three or more prior claims"],
       [weight |-> 5,  note |-> "Online submission"],
       [weight |-> 10, note |-> "Missing/unknown city"] >>

\* the for loop over RULES, from rule i on, with the running score and reasons
RECURSIVE ApplyRules(_, _, _, _)
ApplyRules(c, i, score, reasons) ==
    IF i > Len(RULES) THEN [score |-> score, reasons |-> reasons]
    ELSE IF RuleHolds(i, c)
         THEN ApplyRules(c, i + 1, score + RULES[i].weight,
                         Append(reasons, RULES[i].note))
         ELSE ApplyRules(c, i + 1, score, reasons)

Min(a, b) == IF a <= b THEN a ELSE b

FraudScore(score) == Min(score, ScoreCap)

\* variant of FraudLabel with > for >=: C7 must tell them apart
FraudLabelAboveOnly(fraud_score) ==
    IF fraud_score > THRESHOLD THEN "SUSPICIOUS" ELSE "OK"

FraudLabel(fraud_score) == IF fraud_score >= THRESHOLD THEN "SUSPICIOUS" ELSE "OK"

\* the Claim object score_claim builds from the request body
ParseClaim(data) ==
    [ claim_number  |-> Get(data, "claim_number", "NA"),
      policy_number |-> Get(data, "policy_number", "NA"),
      amount        |-> Get(data, "amount", 0),
      channel       |-> Normalize(data, "channel"),
      city          |-> Normalize(data, "city"),
      prior_claims  |-> IntOfTenths(Get(data, "prior_claims", 0)) ]

\* the Claim object after "Assign results"
ScoredClaim(data) ==
    LET c == ParseClaim(data)
        r == ApplyRules(c, 1, 0, << >>)
        fs == FraudScore(r.score)
    IN  [ claim_number  |-> c.claim_number,
          policy_number |-> c.policy_number,
          amount        |-> c.amount,
          channel       |-> c.channel,
          city          |-> c.city,
          prior_claims  |-> c.prior_claims,
          fraud_score   |-> fs,
          fraud_label   |-> FraudLabel(fs) ]

Reasons(data) == ApplyRules(ParseClaim(data), 1, 0, << >>).reasons

(***************************************************************************)
(* RBAC: the users table after seed_users, current_user and require_role.  *)
(***************************************************************************)
NoKey == "<no X-API-KEY header>"

Users ==
    { [name |-> "Editor", api_key |-> "editor-key-123", role |-> "editor"],
      [name |-> "Viewer", api_key |-> "viewer-key-123", role |-> "viewer"] }

\* the rows current_user's query matches (at most one: api_key is unique)
current_user(key) == {u \in Users : key # NoKey /\ u.api_key = key}

PASS == 0

\* the status the wrapper of require_role(roles) answers with, or PASS when
\* it calls the handler
require_role(roles, key) ==
    LET user == current_user(key)
    IN  IF user = {} THEN 401
        ELSE IF \A u \in user : u.role \notin roles THEN 403
        ELSE PASS

ViewRoles == {"viewer", "editor"}

EditRoles == {"editor"}

require_view(key) == require_role(ViewRoles, key)

\* variant of require_edit that admits the viewer: C9 must tell them apart
require_editAsView(key) == require_role(ViewRoles, key)

require_edit(key) == require_role(EditRoles, key)

DeniedBody(status) ==
    IF status = 401 THEN [error |-> "Missing or invalid API key"]
    ELSE [error |-> "Forbidden for role"]

(***************************************************************************)
(* The database after create_all, seed_users and seed_demo.                *)
(***************************************************************************)
SeedTagNames == <<"PII", "GDPR", "HIPAA", "PCI", "internal", "public">>

SeedTags == {[id |-> i, name |-> SeedTagNames[i]] : i \in 1..Len(SeedTagNames)}

SeedAssets ==
    { [id |-> 1, name |-> "Policy_Master", type |-> "policy"],
      [id |-> 2, name |-> "Claim_Intake_2025", type |-> "claim"],
      [id |-> 3, name |-> "Reserve_Model_v1", type |-> "reserve_model"] }

SeedAssetTags == {[asset_id |-> 1, tag_id |-> 1]}

SeedLineage ==
    << [id |-> 1, src_asset_id |-> 1, dst_asset_id |-> 2, relation |-> "feeds"],
       [id |-> 2, src_asset_id |-> 2, dst_asset_id |-> 3, relation |-> "drives"] >>

SeedClaims ==
    { [id |-> 1, claim_number |-> "C-1001", policy_number |-> "P-9001",
       amount |-> 12000, channel |-> Str_online,
       city |-> <<"C", "h", "e", "n", "n", "a", "i">>, prior_claims |-> 0,
       fraud_score |-> 12, fraud_label |-> "OK"],
      [id |-> 2, claim_number |-> "C-1002", policy_number |-> "P-9002",
       amount |-> 450000, channel |-> Str_online,
       city |-> <<"U", "n", "k", "n", "o", "w", "n">>, prior_claims |-> 3,
       fraud_score |-> 78, fraud_label |-> "SUSPICIOUS"] }

\* the answer of a handler: which handler, the HTTP status, the JSON body
Response(op, status, body) == [op |-> op, status |-> status, body |-> body]

NoResponse == Response("none", 0, [error |-> "none"])

Init ==
    /\ assets = SeedAssets
    /\ tags = SeedTags
    /\ asset_tags = SeedAssetTags
    /\ lineage = SeedLineage
    /\ claims = SeedClaims
    /\ resp = NoResponse
    /\ txn = {}

Ids(rows) == {r.id : r \in rows}

\* a handler answers without writing anything
Answer(op, status, body) ==
    /\ resp' = Response(op, status, body)
    /\ UNCHANGED <<store, txn>>

\* the wrapper of require_role answers itself and the handler does not run
Reject(op, status) == Answer(op, status, DeniedBody(status))

\* db.commit() raised: the session is rolled back and closed, the answer is
\* 500 (from the handler's except clause, or from Flask when it has none)
ServerError(op) == Answer(op, 500, [error |-> "IntegrityError"])

(***************************************************************************)
(* POST /claims/score                                                      *)
(***************************************************************************)
\* the UNIQUE constraint on claims.claim_number, checked by db.commit()
ClaimInsertOk(claim) == \A c \in claims : c.claim_number # claim.claim_number

\* the JSON body score_claim returns with status 200
ScoreBody(data) ==
    LET claim == ScoredClaim(data)
    IN  [claim_number |-> claim.claim_number,
         fraud_label |-> claim.fraud_label,
         fraud_score |-> claim.fraud_score,
         reasons |-> Reasons(data)]

score_claim_fn(data) ==
    LET claim == ScoredClaim(data)
        row == [id |-> NextId(Ids(claims))] @@ claim
    IN  IF ClaimInsertOk(claim)
        THEN /\ claims' = claims \cup {row}
             /\ resp' = Response("score_claim", 200, ScoreBody(data))
             /\ UNCHANGED <<assets, tags, asset_tags, lineage, txn>>
        ELSE ServerError("score_claim")

score_claim(key, data) ==
    IF require_edit(key) # PASS
    THEN Reject("score_claim", require_edit(key))
    ELSE score_claim_fn(data)

(***************************************************************************)
(* Assets and tags: POST /assets, PUT and DELETE /assets/<id>, POST /tags. *)
(***************************************************************************)
Null == "<null>"

AssetById(asset_id) == {a \in assets : a.id = asset_id}

TagByName(name) == {t \in tags : t.name = name}

\* the names in the tags list that no stored tag has: one new Tag object is
\* built per occurrence, since the session does not autoflush
NewTagNames(ts) == SelectSeq(ts, LAMBDA t : TagByName(t) = {})

\* variant of TagInsertOk without the constraint: C10 must tell them apart
TagInsertUnchecked(names) == TRUE

\* the UNIQUE constraint on tags.name, checked when the new Tag objects of
\* one commit are inserted
TagInsertOk(names) == NoDuplicates(names)

\* the rows the commit inserts into tags for the new Tag objects
NewTagRows(names) ==
    {[id |-> NextId(Ids(tags)) + i - 1, name |-> names[i]] : i \in 1..Len(names)}

\* the stored tags of the list that the asset was not linked to before: each
\* occurrence becomes one row of asset_tags
AddedOldLinks(asset_id, ts) ==
    SelectSeq(ts, LAMBDA t :
        /\ TagByName(t) # {}
        /\ \A tg \in TagByName(t) :
              [asset_id |-> asset_id, tag_id |-> tg.id] \notin asset_tags)

\* the primary key (asset_id, tag_id) of asset_tags
AssetTagInsertOk(names) == NoDuplicates(names)

\* NOT NULL on assets.name and assets.type
AssetRowOk(a) == a.name # Null /\ a.type # Null

\* the rows of asset_tags of asset_id once the tags list ts is committed
LinksOf(asset_id, ts, newrows) ==
    {[asset_id |-> asset_id, tag_id |-> tg.id] :
        tg \in {t \in tags \cup newrows : t.name \in Range(ts)}}

asset_to_dict(a, alltags, links) ==
    [id |-> a.id, name |-> a.name, type |-> a.type,
     tags |-> {t.name : t \in {tg \in alltags :
                  [asset_id |-> a.id, tag_id |-> tg.id] \in links}}]

create_asset_fn(data) ==
    LET a == [id |-> NextId(Ids(assets)),
              name |-> Get(data, "name", Null),
              type |-> Get(data, "type", Null)]
        ts == Get(data, "tags", << >>)
        newrows == NewTagRows(NewTagNames(ts))
    IN  IF /\ AssetRowOk(a)
           /\ TagInsertOk(NewTagNames(ts))
           /\ AssetTagInsertOk(AddedOldLinks(a.id, ts))
        THEN /\ assets' = assets \cup {a}
             /\ tags' = tags \cup newrows
             /\ asset_tags' = asset_tags \cup LinksOf(a.id, ts, newrows)
             /\ resp' = Response("create_asset", 201,
                                 asset_to_dict(a, tags', asset_tags'))
             /\ UNCHANGED <<lineage, claims, txn>>
        ELSE ServerError("create_asset")

create_asset(key, data) ==
    /\ NextId(Ids(assets)) <= MaxAssetId
    /\ IF require_edit(key) # PASS
       THEN Reject("create_asset", require_edit(key))
       ELSE create_asset_fn(data)

update_asset_fn(asset_id, data) ==
    IF AssetById(asset_id) = {}
    THEN Answer("update_asset", 404, [error |-> "Not found"])
    ELSE LET old == CHOOSE a \in assets : a.id = asset_id
             a == [id |-> asset_id,
                   name |-> Get(data, "name", old.name),
                   type |-> Get(data, "type", old.type)]
             retag == "tags" \in DOMAIN data
             ts == Get(data, "tags", << >>)
             newrows == IF retag THEN NewTagRows(NewTagNames(ts)) ELSE {}
             others == {l \in asset_tags : l.asset_id # asset_id}
         IN  IF /\ AssetRowOk(a)
                /\ retag => /\ TagInsertOk(NewTagNames(ts))
                            /\ AssetTagInsertOk(AddedOldLinks(asset_id, ts))
             THEN /\ assets' = (assets \ {old}) \cup {a}
                  /\ tags' = tags \cup newrows
                  /\ asset_tags' = IF retag
                                   THEN others \cup LinksOf(asset_id, ts, newrows)
                                   ELSE asset_tags
                  /\ resp' = Response("update_asset", 200,
                                      asset_to_dict(a, tags', asset_tags'))
                  /\ UNCHANGED <<lineage, claims, txn>>
             ELSE ServerError("update_asset")

update_asset(key, asset_id, data) ==
    IF require_edit(key) # PASS
    THEN Reject("update_asset", require_edit(key))
    ELSE update_asset_fn(asset_id, data)

\* db.delete(a); db.commit(): the asset row and its asset_tags rows go; the
\* lineage table has no relationship to Asset and SQLite does not enforce
\* its foreign keys, so its rows stay
delete_asset_fn(asset_id) ==
    IF AssetById(asset_id) = {}
    THEN Answer("delete_asset", 404, [error |-> "Not found"])
    ELSE /\ assets' = assets \ AssetById(asset_id)
         /\ asset_tags' = {l \in asset_tags : l.asset_id # asset_id}
         /\ resp' = Response("delete_asset", 200, [status |-> "deleted"])
         /\ UNCHANGED <<tags, lineage, claims, txn>>

delete_asset(key, asset_id) ==
    IF require_edit(key) # PASS
    THEN Reject("delete_asset", require_edit(key))
    ELSE delete_asset_fn(asset_id)

create_tag_fn(data) ==
    LET name == Get(data, "name", Null)
    IN  IF name = Null \/ name = ""
        THEN Answer("create_tag", 400, [error |-> "Missing name"])
        ELSE IF TagByName(name) # {}
        THEN Answer("create_tag", 400, [error |-> "Tag exists"])
        ELSE /\ tags' = tags \cup NewTagRows(<<name>>)
             /\ resp' = Response("create_tag", 201, [name |-> name])
             /\ UNCHANGED <<assets, asset_tags, lineage, claims, txn>>

create_tag(key, data) ==
    IF require_edit(key) # PASS
    THEN Reject("create_tag", require_edit(key))
    ELSE create_tag_fn(data)

(***************************************************************************)
(* Lineage: POST /lineage and GET /lineage/<id>.                           *)
(***************************************************************************)
\* "not data.get(key)" for an id of the request body: the key is absent
\* (None), or the id is 0
Falsy(data, key) == key \notin DOMAIN data \/ data[key] = 0

\* variant of AssetExists that finds every non-zero id: C4 must tell them
\* apart
AssetExistsAny(asset_id) == asset_id > 0

\* db.query(Asset).get(id) finds a row
AssetExists(asset_id) == AssetById(asset_id) # {}

\* the Lineage row db.commit() inserts
NewEdge(data) ==
    [id |-> NextId(Ids(Range(lineage))),
     src_asset_id |-> data["src_asset_id"],
     dst_asset_id |-> data["dst_asset_id"],
     relation |-> Get(data, "relation", "derives")]

\* the answer of add_lineage before it writes, or PASS when both ids are
\* given and both assets are found
add_lineage_checks(data) ==
    IF Falsy(data, "src_asset_id") \/ Falsy(data, "dst_asset_id") THEN 400
    ELSE IF ~AssetExists(data["src_asset_id"]) \/ ~AssetExists(data["dst_asset_id"])
    THEN 404
    ELSE PASS

EdgeError(status) ==
    IF status = 400
    THEN [error |-> "src_asset_id and dst_asset_id are required and must be integers"]
    ELSE [error |-> "One or both asset IDs do not exist"]

\* db.add(edge); db.commit()
insert_edge(data) ==
    /\ lineage' = Append(lineage, NewEdge(data))
    /\ resp' = Response("add_lineage", 201,
                        [id |-> NewEdge(data).id, message |-> "Edge created"])
    /\ UNCHANGED <<assets, tags, asset_tags, claims>>

\* the whole handler, run with no other request in between
add_lineage(key, data) ==
    /\ Len(lineage) < MaxEdges
    /\ IF require_edit(key) # PASS
       THEN Reject("add_lineage", require_edit(key))
       ELSE IF add_lineage_checks(data) # PASS
       THEN Answer("add_lineage", add_lineage_checks(data),
                   EdgeError(add_lineage_checks(data)))
       ELSE insert_edge(data) /\ UNCHANGED txn

\* the handler up to the two db.query(Asset).get calls, when the server
\* runs other requests between them and db.commit(): a request that passed
\* both checks is in flight in txn
add_lineage_check(key, data) ==
    /\ txn = {}
    /\ Len(lineage) < MaxEdges
    /\ IF require_edit(key) # PASS
       THEN Reject("add_lineage", require_edit(key))
       ELSE IF add_lineage_checks(data) # PASS
       THEN Answer("add_lineage", add_lineage_checks(data),
                   EdgeError(add_lineage_checks(data)))
       ELSE /\ txn' = {data}
            /\ UNCHANGED <<store, resp>>

\* the rest of the handler for the request in flight
add_lineage_commit ==
    \E data \in txn : insert_edge(data) /\ txn' = {}

\* variant of outgoing without the filter: C5 must tell them apart
outgoingUnfiltered(asset_id) == lineage

outgoing(asset_id) == SelectSeq(lineage, LAMBDA e : e.src_asset_id = asset_id)

incoming(asset_id) == SelectSeq(lineage, LAMBDA e : e.dst_asset_id = asset_id)

EdgeView(e) ==
    [id |-> e.id, source |-> e.src_asset_id, target |-> e.dst_asset_id,
     relation |-> e.relation]

\* the "edges" list of the answer of get_lineage
edges(asset_id) ==
    LET both == outgoing(asset_id) \o incoming(asset_id)
    IN  [i \in 1..Len(both) |-> EdgeView(both[i])]

\* the "nodes" of the answer of get_lineage
nodes(asset_id) ==
    LET node_ids == {asset_id}
                      \cup {e.dst_asset_id : e \in Range(outgoing(asset_id))}
                      \cup {e.src_asset_id : e \in Range(incoming(asset_id))}
    IN  {asset_to_dict(a, tags, asset_tags) : a \in {x \in assets : x.id \in node_ids}}

get_lineage(key, asset_id) ==
    IF require_view(key) # PASS
    THEN Reject("get_lineage", require_view(key))
    ELSE Answer("get_lineage", 200,
                [nodes |-> nodes(asset_id), edges |-> edges(asset_id)])

(***************************************************************************)
(* Request inputs.                                                         *)
(***************************************************************************)
EditorKey == "editor-key-123"

ViewerKey == "viewer-key-123"

Keys == {NoKey, EditorKey, ViewerKey, "stale-key"}

\* the optional field k of a JSON body: absent, or one of the values vs
Field(k, vs) == {<< >>} \cup {k :> v : v \in vs}

ScoreBodies ==
    { a @@ p @@ ch @@ ci @@ n :
        a  \in {"amount" :> v : v \in {300000, 300001}},
        p  \in {"prior_claims" :> v : v \in {29, 30}},
        ch \in {"channel" :> v : v \in {<<" ", "O", "n", "l", "i", "n", "e">>, Str_agent}},
        ci \in Field("city", {<<"N", "A", " ">>, Str_chennai}),
        n  \in Field("claim_number", {"C-1001", "C-2001"}) }

TagLists ==
    { <<"GDPR">>, <<"draft">>, <<"draft", "draft">>, <<"GDPR", "GDPR">>,
      <<"draft", "PII">> }

NewAsset == ("name" :> "Loss_Triangles") @@ ("type" :> "claim")

AssetBodies ==
    {NewAsset @@ ts : ts \in Field("tags", TagLists)} \cup {"type" :> "claim"}

AssetUpdates ==
    {"name" :> "Loss_Triangles"} \cup {"tags" :> ts : ts \in TagLists \cup {<< >>}}

TagBodies == Field("name", {"PII", "draft", ""})

AssetIds == 1..MaxAssetId

EdgeBodies ==
    {("src_asset_id" :> s) @@ ("dst_asset_id" :> d) : s, d \in 0..MaxAssetId}
      \cup {"src_asset_id" :> 1}

\* lineage and the assets it joins, one request at a time
Next ==
    \/ \E key \in {EditorKey, ViewerKey} : create_asset(key, NewAsset)
    \/ \E key \in {EditorKey, ViewerKey}, id \in AssetIds : delete_asset(key, id)
    \/ \E key \in {EditorKey, ViewerKey}, data \in EdgeBodies : add_lineage(key, data)
    \/ \E key \in {ViewerKey, NoKey}, id \in AssetIds : get_lineage(key, id)

Spec == Init /\ [][Next]_vars

\* the fraud scorer
NextScore == \E key \in {EditorKey, ViewerKey}, data \in ScoreBodies : score_claim(key, data)

SpecScore == Init /\ [][NextScore]_vars

\* tags and the assets that name them
NextTags ==
    \/ \E data \in AssetBodies : create_asset(EditorKey, data)
    \/ \E id \in AssetIds, data \in AssetUpdates : update_asset(EditorKey, id, data)
    \/ \E id \in AssetIds : delete_asset(EditorKey, id)
    \/ \E key \in {EditorKey, ViewerKey}, data \in TagBodies : create_tag(key, data)

SpecTags == Init /\ [][NextTags]_vars

\* POST /lineage served while DELETE /assets/<id> requests are served
NextRace ==
    \/ \E data \in EdgeBodies : add_lineage_check(EditorKey, data)
    \/ add_lineage_commit
    \/ \E id \in AssetIds : delete_asset(EditorKey, id)
    \/ create_asset(EditorKey, NewAsset)

SpecRace == Init /\ [][NextRace]_vars

\* every writing handler, called with every kind of API key
Write(key) ==
    \/ create_asset(key, NewAsset @@ ("tags" :> <<"draft">>))
    \/ \E id \in AssetIds : update_asset(key, id, "name" :> "Loss_Triangles")
    \/ \E id \in AssetIds : delete_asset(key, id)
    \/ create_tag(key, "name" :> "draft")
    \/ add_lineage(key, ("src_asset_id" :> 1) @@ ("dst_asset_id" :> 2))
    \/ score_claim(key, ("amount" :> 300001) @@ ("city" :> <<"N", "A", " ">>))

NextAccess == \E key \in Keys : Write(key)

SpecAccess == Init /\ [][NextAccess]_vars

(***************************************************************************)
(* Properties.                                                             *)
(***************************************************************************)
GivenIds(data) == {"src_asset_id", "dst_asset_id"} \subseteq DOMAIN data

\* how many entries of an edges list have the id
IdCount(es, id) == Cardinality({i \in 1..Len(es) : es[i].id = id})

\* C1: add_lineage on two existing assets, the same asset twice included,
\* answers 201, and get_lineage on either endpoint then lists the new edge
\* id exactly once.
C1_NewEdgeListedOnce ==
    [][\A data \in EdgeBodies :
          ( /\ GivenIds(data)
            /\ data["src_asset_id"] \in Ids(assets)
            /\ data["dst_asset_id"] \in Ids(assets)
            /\ add_lineage(EditorKey, data) )
          => /\ resp'.status = 201
             /\ IdCount(edges(data["src_asset_id"])', resp'.body.id) = 1
             /\ IdCount(edges(data["dst_asset_id"])', resp'.body.id) = 1]_vars

\* C2: both endpoints of every stored lineage edge are existing assets, in
\* every state create_asset, delete_asset and add_lineage calls lead to.
C2_NoDanglingEdge ==
    \A e \in Range(lineage) :
        e.src_asset_id \in Ids(assets) /\ e.dst_asset_id \in Ids(assets)

\* C3: the answer of score_claim is a function of the request body alone,
\* the one the rules compute; it is the same whenever the call is made and
\* whatever the claims table holds.
C3_ScoreIsPure ==
    [][\A data \in ScoreBodies :
          score_claim(EditorKey, data)
          => resp' = Response("score_claim", 200, ScoreBody(data))]_vars

\* C4 as stated: add_lineage with a source or destination id that is the
\* id of no stored asset answers 404 and leaves the lineage table as it was.
C4_MissingAssetIs404 ==
    [][\A data \in EdgeBodies :
          ( /\ GivenIds(data)
            /\ \/ data["src_asset_id"] \notin Ids(assets)
               \/ data["dst_asset_id"] \notin Ids(assets)
            /\ add_lineage(EditorKey, data) )
          => resp'.status = 404 /\ lineage' = lineage]_vars

\* C4 as amended: add_lineage with two non-zero ids, one of which is the id
\* of no stored asset, answers 404 and leaves the lineage table as it was.
C4_MissingNonZeroAssetIs404 ==
    [][\A data \in EdgeBodies :
          ( /\ GivenIds(data)
            /\ data["src_asset_id"] # 0 /\ data["dst_asset_id"] # 0
            /\ \/ data["src_asset_id"] \notin Ids(assets)
               \/ data["dst_asset_id"] \notin Ids(assets)
            /\ add_lineage(EditorKey, data) )
          => resp'.status = 404 /\ lineage' = lineage]_vars

C4_Witness ==
    /\ resp.op = "add_lineage"
    /\ resp.status = 404
    /\ Cardinality(Ids(assets)) = 2

\* C5: every edge in the edges list get_lineage returns for an asset id has
\* that id as its source or as its target.
C5_EdgesTouchCenter ==
    /\ \A a \in 0..(MaxAssetId + 1) :
          \A i \in 1..Len(edges(a)) :
              edges(a)[i].source = a \/ edges(a)[i].target = a
    /\ (resp.op = "get_lineage" /\ resp.status = 200)
          => \E a \in AssetIds :
                \A i \in 1..Len(resp.body.edges) :
                    resp.body.edges[i].source = a \/ resp.body.edges[i].target = a

C5_Witness ==
    /\ resp.op = "get_lineage"
    /\ resp.status = 200
    /\ Len(resp.body.edges) >= 2
    /\ \E e \in Range(lineage) : EdgeView(e) \notin Range(resp.body.edges)

\* the rules of the default table that trigger on a normalized claim
Triggered(c) ==
    << c.amount > 300000,
       c.prior_claims >= 3,
       c.channel = Str_online,
       c.city \in {Str_unknown, Str_na, EmptyStr} >>

ExpectedWeights == <<50, 25, 5, 10>>

ExpectedNotes ==
    <<"High claim amount > 300k", "Three or more prior claims",
      "Online submission", "Missing/unknown city">>

RECURSIVE ExpectedSum(_, _)
ExpectedSum(trig, i) ==
    IF i = 0 THEN 0
    ELSE ExpectedSum(trig, i - 1) + (IF trig[i] THEN ExpectedWeights[i] ELSE 0)

RECURSIVE ExpectedReasons(_, _)
ExpectedReasons(trig, i) ==
    IF i = 0 THEN << >>
    ELSE ExpectedReasons(trig, i - 1)
           \o (IF trig[i] THEN <<ExpectedNotes[i]>> ELSE << >>)

Clamp(x) == IF x < 0 THEN 0 ELSE IF x > 100 THEN 100 ELSE x

\* C6: the score score_claim returns is the sum, clamped to [0, 100], of the
\* weights of the rules that trigger on the normalized claim it stored
\* (amount > 300000, prior_claims >= 3, channel "online", city "unknown",
\* "na" or empty), and reasons lists their reason strings in table order;
\* the stored channel and city are the lower-cased, trimmed inputs.
C6_ScoreIsSumOfTriggered ==
    (resp.op = "score_claim" /\ resp.status = 200)
    => \E c \in claims :
          /\ c.claim_number = resp.body.claim_number
          /\ resp.body.fraud_score = Clamp(ExpectedSum(Triggered(c), 4))
          /\ resp.body.reasons = ExpectedReasons(Triggered(c), 4)
          /\ c.channel \in {Str_online, Str_agent}
          /\ c.city \in {Str_na, Str_chennai, EmptyStr}

\* a claim of exactly 300000 with three prior claims scored 25
C6_Witness ==
    /\ resp.op = "score_claim"
    /\ resp.status = 200
    /\ resp.body.fraud_score = 25
    /\ resp.body.reasons = <<"Three or more prior claims">>
    /\ \E c \in claims :
          /\ c.claim_number = resp.body.claim_number
          /\ c.amount = 300000
          /\ c.prior_claims = 3

\* C7: in every answer of score_claim the label is SUSPICIOUS exactly when
\* the score is at least 60 and OK otherwise, the score is within [0, 100],
\* and the stored claim of that number carries the same score and label.
C7_LabelMatchesScore ==
    (resp.op = "score_claim" /\ resp.status = 200)
    => /\ resp.body.fraud_label = "SUSPICIOUS" <=> resp.body.fraud_score >= 60
       /\ resp.body.fraud_label \in {"SUSPICIOUS", "OK"}
       /\ resp.body.fraud_score \in 0..100
       /\ \E c \in claims :
             /\ c.claim_number = resp.body.claim_number
             /\ c.fraud_score = resp.body.fraud_score
             /\ c.fraud_label = resp.body.fraud_label

C7_Witness ==
    /\ resp.op = "score_claim"
    /\ resp.status = 200
    /\ resp.body.fraud_score = 60
    /\ resp.body.fraud_label = "SUSPICIOUS"

\* C8: when add_lineage commits its edge, both assets of the edge exist,
\* whatever delete_asset calls were served since it looked them up.
C8_CommitSeesBothAssets ==
    [][add_lineage_commit
         => \A data \in txn :
               /\ data["src_asset_id"] \in Ids(assets)
               /\ data["dst_asset_id"] \in Ids(assets)]_vars

\* C9: a call of a writing handler with no key, an unknown key or the
\* viewer's key is answered 401, 401 and 403 and changes no table.
C9_DeniedWritesNothing ==
    [][\A key \in Keys \ {EditorKey} :
          Write(key)
          => /\ store' = store
             /\ resp'.status = IF key = ViewerKey THEN 403 ELSE 401]_vars

C9_Witness ==
    /\ resp.op = "delete_asset"
    /\ resp.status = 403
    /\ assets # SeedAssets
    /\ Len(lineage) > Len(SeedLineage)

TagNames(ts) == {t.name : t \in ts}

\* C10: no two stored tags have the same name; create_tag with a stored
\* name answers 400 and adds no tag; create_asset and update_asset add no
\* tag for a name that is stored.
C10_TagNamesUnique ==
    /\ [](\A t1, t2 \in tags : t1.name = t2.name => t1 = t2)
    /\ [][\A data \in TagBodies \ {<< >>} :
            (data["name"] \in TagNames(tags) /\ create_tag(EditorKey, data))
            => resp'.status = 400 /\ tags' = tags]_vars
    /\ [][Cardinality(tags') - Cardinality(tags)
            = Cardinality(TagNames(tags') \ TagNames(tags))]_vars

\* the tag "draft", made by one asset request, is linked to two assets
C10_Witness ==
    /\ resp.op = "update_asset"
    /\ resp.status = 200
    /\ \E t \in tags :
          /\ t.name = "draft"
          /\ Cardinality({l \in asset_tags : l.tag_id = t.id}) >= 2

====
